---- MODULE Spec2Model ----
(***************************************************************************)
(* A model of src/extraction.py: the Extraction class of the PokeAPI       *)
(* extraction pipeline.                                                    *)
(*                                                                         *)
(*   extract_data        the pagination driver (one run, one record class) *)
(*   fetch_detailed_data the ThreadPoolExecutor fan-out over one page      *)
(*   api_call            one GET, returning the payload or None            *)
(*   transform_data      the per-class reshaping of the detail payloads    *)
(*   log_metadata        the run reporter                                  *)
(*   write_data_to_file  the sink                                          *)
(*                                                                         *)
(* Python values are modelled as follows: a dict is a function whose       *)
(* domain is its set of keys (a record), a list is a sequence, None is the *)
(* value None below, a string s is PyStr(s), an int n is PyInt(n), and the *)
(* float n / 10 is Float10(n).  An evaluation that may raise yields either *)
(* Ret(v) or Raise(e), e the name of the exception class.  The payloads of *)
(* the model hold lists where the API holds lists (never null there).      *)
(***************************************************************************)
EXTENDS Integers, Sequences, FiniteSets, TLC

VARIABLES
    data_class,     \* extract_data's argument
    source,         \* what the API serves during the run (the environment)
    pc,             \* the driver's position in extract_data
    exc,            \* the exception that ended the run, "" if none
    url,            \* extract_data: url
    data,           \* extract_data: data (the current page payload)
    data_urls,      \* extract_data: data_urls
    futures,        \* fetch_detailed_data: the futures executor.map created
    detailed_data,  \* fetch_detailed_data: the list being built from the result iterator
    results,        \* extract_data: results (the accumulator)
    count,          \* extract_data: count
    log_calls,      \* the calls of log_metadata so far: <<count, api_count>> each
    write_calls,    \* the calls of write_data_to_file so far: the data of each
    visited,        \* history: the page ids whose fetch succeeded, in order
    t_in,           \* transform_data alone: the data argument
    t_out           \* transform_data alone: what the call produced

vars == <<data_class, source, pc, exc, url, data, data_urls, futures,
          detailed_data, results, count, log_calls, write_calls, visited,
          t_in, t_out>>

run_vars == <<source, pc, exc, url, data, data_urls, futures, detailed_data,
              results, count, log_calls, write_calls, visited>>

(***************************************************************************)
(* Bounds of the model.                                                    *)
(***************************************************************************)
\* The number of distinct catalog pages the API serves.
MaxPages == 2
\* The number of entry stubs of the whole catalog.
MaxEntries == 3
\* The worker budget of the pool.  The source sets max_workers=20; the model
\* runs the same pool with a smaller budget, so that a page with more
\* entries than workers is within MaxEntries.
MaxWorkers == 2
\* How often the driver may fetch a page in one run: one more than there are
\* pages, so that a second visit of a page is reached and the run is cut there.
MaxFetches == MaxPages + 1

(***************************************************************************)
(* Python values.                                                          *)
(***************************************************************************)
None == [None |-> TRUE]
PyStr(s) == [s |-> s]
PyInt(n) == [n |-> n]
EmptyDict == <<>>
EmptyList == <<>>

IsInt(v) == DOMAIN v = {"n"}

\* n / 10 on an int n: the quotient and the remaining tenths, which is exact.
Float10(n) == [whole |-> n \div 10, tenths |-> n % 10]

Ret(v) == [value |-> v]
Raise(e) == [raised |-> e]
IsRaise(r) == "raised" \in DOMAIN r

\* d[k] where d is known to be a dict, else default
Get(d, k, default) == IF k \in DOMAIN d THEN d[k] ELSE default

\* d.get(k, default): None has no attribute get
DictGet(d, k, default) ==
    IF d = None THEN Raise("AttributeError") ELSE Ret(Get(d, k, default))

\* d.get(k)
GetOrNone(d, k) == DictGet(d, k, None)

\* d[k]
Subscript(d, k) ==
    IF d = None THEN Raise("TypeError")
    ELSE IF k \in DOMAIN d THEN Ret(d[k]) ELSE Raise("KeyError")

\* xs[0]
First(xs) == IF Len(xs) = 0 THEN Raise("IndexError") ELSE Ret(xs[1])

\* F(e), with e evaluated once.
Let(e, F(_)) == CHOOSE out \in {F(v) : v \in {e}} : TRUE

\* The first raise among the evaluations rs (a sequence, in evaluation
\* order), or the sequence of their values.
Sequenced(rs) ==
    Let(rs, LAMBDA evaluated :
        IF \E i \in 1..Len(evaluated) : IsRaise(evaluated[i])
        THEN evaluated[CHOOSE i \in 1..Len(evaluated) :
                          /\ IsRaise(evaluated[i])
                          /\ \A j \in 1..(i - 1) : ~IsRaise(evaluated[j])]
        ELSE Ret([i \in 1..Len(evaluated) |-> evaluated[i].value]))

\* F applied to the value of r, unless r raised
Bind(r, F(_)) ==
    Let(r, LAMBDA evaluated :
        IF IsRaise(evaluated) THEN evaluated ELSE F(evaluated.value))

\* [F(x) for x in xs]
Comprehension(F(_), xs) ==
    Let(xs, LAMBDA items : Sequenced([i \in 1..Len(items) |-> F(items[i])]))

\* The pairs of {K(x): V(x) for x in xs} as a dict: a later entry replaces
\* an earlier one of the same key.
DictOf(pairs) ==
    [k \in {pairs[i][1] : i \in 1..Len(pairs)} |->
        pairs[CHOOSE i \in 1..Len(pairs) :
                 pairs[i][1] = k /\ \A j \in (i + 1)..Len(pairs) : pairs[j][1] # k][2]]

\* x / 10
DivideBy10(x) == IF IsInt(x) THEN Ret(Float10(x.n)) ELSE Raise("TypeError")

\* item[outer]["name"]
NestedName(item, outer) ==
    Bind(Subscript(item, outer), LAMBDA inner : Subscript(inner, "name"))

\* item.get(outer, {}).get("name")
NestedNameOrNone(item, outer) ==
    Bind(DictGet(item, outer, EmptyDict), LAMBDA inner : GetOrNone(inner, "name"))

(***************************************************************************)
(* transform_data: one record per class.  The fields are evaluated in the  *)
(* order of the dict display; the first one that raises ends the call.     *)
(***************************************************************************)
\* stat.get("stat", {}).get("name"): stat.get("base_stat")
StatPair(stat) ==
    Bind(NestedNameOrNone(stat, "stat"),
         LAMBDA k : Bind(GetOrNone(stat, "base_stat"), LAMBDA v : Ret(<<k, v>>)))

PokemonRecord(pokemon) ==
    LET fields == Sequenced(<<
            GetOrNone(pokemon, "id"),
            GetOrNone(pokemon, "order"),
            Bind(DictGet(pokemon, "forms", <<EmptyDict>>),
                 LAMBDA forms : Bind(First(forms),
                                     LAMBDA form : GetOrNone(form, "name"))),
            Bind(DictGet(pokemon, "stats", EmptyList),
                 LAMBDA stats : Bind(Comprehension(StatPair, stats),
                                     LAMBDA pairs : Ret(DictOf(pairs)))),
            Bind(DictGet(pokemon, "types", EmptyList),
                 LAMBDA types : Comprehension(
                     LAMBDA item : NestedNameOrNone(item, "type"), types)),
            Bind(DictGet(pokemon, "moves", EmptyList),
                 LAMBDA moves : Comprehension(
                     LAMBDA item : NestedName(item, "move"), moves)),
            Bind(DictGet(pokemon, "height", PyInt(0)), DivideBy10),
            Bind(DictGet(pokemon, "weight", PyInt(0)), DivideBy10),
            NestedNameOrNone(pokemon, "species"),
            Bind(DictGet(pokemon, "game_indices", EmptyList),
                 LAMBDA indices : Comprehension(
                     LAMBDA item : NestedName(item, "version"), indices)) >>)
    IN  Bind(fields, LAMBDA v : Ret(
            [id |-> v[1], order |-> v[2], name |-> v[3], stats |-> v[4],
             types |-> v[5], moves |-> v[6], height |-> v[7], weight |-> v[8],
             species |-> v[9], game_indices |-> v[10]]))

MoveRecord(move) ==
    LET fields == Sequenced(<<
            GetOrNone(move, "id"),
            GetOrNone(move, "name"),
            GetOrNone(move, "power"),
            GetOrNone(move, "pp"),
            NestedNameOrNone(move, "type"),
            NestedNameOrNone(move, "damage_class") >>)
    IN  Bind(fields, LAMBDA v : Ret(
            [id |-> v[1], name |-> v[2], power |-> v[3], pp |-> v[4],
             type |-> v[5], class |-> v[6]]))

\* [item.get("name") for item in type_class.get("damage_relations", {}).get(key, [])]
DamageRelation(type_class, key) ==
    Bind(DictGet(type_class, "damage_relations", EmptyDict),
         LAMBDA relations : Bind(DictGet(relations, key, EmptyList),
             LAMBDA items : Comprehension(
                 LAMBDA item : GetOrNone(item, "name"), items)))

TypeRecord(type_class) ==
    LET fields == Sequenced(<<
            GetOrNone(type_class, "id"),
            GetOrNone(type_class, "name"),
            DamageRelation(type_class, "double_damage_from"),
            DamageRelation(type_class, "double_damage_to"),
            DamageRelation(type_class, "half_damage_from"),
            DamageRelation(type_class, "half_damage_to"),
            DamageRelation(type_class, "no_damage_from"),
            DamageRelation(type_class, "no_damage_to") >>)
    IN  Bind(fields, LAMBDA v : Ret(
            [id |-> v[1], name |-> v[2],
             damage_relations |->
                 [double_damage_from |-> v[3], double_damage_to |-> v[4],
                  half_damage_from |-> v[5], half_damage_to |-> v[6],
                  no_damage_from |-> v[7], no_damage_to |-> v[8]]]))

AbilityRecord(ability) ==
    LET fields == Sequenced(<<
            GetOrNone(ability, "id"),
            GetOrNone(ability, "name"),
            Bind(DictGet(ability, "pokemon", EmptyList),
                 LAMBDA listed : Comprehension(
                     LAMBDA item : NestedName(item, "pokemon"), listed)) >>)
    IN  Bind(fields, LAMBDA v : Ret([id |-> v[1], name |-> v[2], pokemon |-> v[3]]))

ItemRecord(item) ==
    LET fields == Sequenced(<<
            GetOrNone(item, "id"),
            GetOrNone(item, "name"),
            Bind(DictGet(item, "category", EmptyDict),
                 LAMBDA category : DictGet(category, "name", EmptyList)) >>)
    IN  Bind(fields, LAMBDA v : Ret([id |-> v[1], name |-> v[2], category |-> v[3]]))

\* [x for x in data if x is not None]
NotNone(xs) == SelectSeq(xs, LAMBDA x : x # None)

DataClasses == {"pokemon", "type", "move", "ability", "item"}

\* transform_data(data, data_class): Ret(the list of records) or Raise(e).
\* The pokemon, move and type branches skip the None entries of data; the
\* ability and item branches have no such filter.
transform_data(d, cls) ==
    CASE cls = "pokemon" -> Comprehension(PokemonRecord, NotNone(d))
      [] cls = "move"    -> Comprehension(MoveRecord, NotNone(d))
      [] cls = "type"    -> Comprehension(TypeRecord, NotNone(d))
      [] cls = "ability" -> Comprehension(AbilityRecord, d)
      [] cls = "item"    -> Comprehension(ItemRecord, d)
      [] OTHER           -> Ret(None)

(***************************************************************************)
(* Locators.  A URL is the sequence of the text pieces of its path, "/"    *)
(* left out, with the piece "-species" kept apart so that re.sub can be    *)
(* modelled by what it does; kind tells a catalog page (the endpoint and   *)
(* its ?offset= pages) from a resource, and id is the page's or the        *)
(* resource's number.                                                      *)
(***************************************************************************)
Url(path, kind, id) == [path |-> path, kind |-> kind, id |-> id]

\* self.endpoints: base_url + "pokemon-species/", "type/", ...
EndpointPath(cls) ==
    CASE cls = "pokemon" -> <<"pokemon", "-species">>
      [] cls = "type"    -> <<"type">>
      [] cls = "move"    -> <<"move">>
      [] cls = "ability" -> <<"ability">>
      [] cls = "item"    -> <<"item">>

endpoints(cls) == Url(EndpointPath(cls), "page", 1)

\* re.sub("-species", "", u): every occurrence of the pattern is removed
re_sub_species(u) ==
    [u EXCEPT !.path = SelectSeq(u.path, LAMBDA piece : piece # "-species")]

(***************************************************************************)
(* What the API serves.  source is fixed for a run (the source does not    *)
(* change while it is read):                                               *)
(*   pages   the catalog pages: the entry ids each lists, the id of the    *)
(*           page its "next" names (0: null) and the count it declares     *)
(*   absent  the entry ids whose detail GET fails                          *)
(* The same catalog is served under every endpoint.  The GET of a page may *)
(* fail at any time (a connection error, a timeout, an HTTP error).        *)
(***************************************************************************)
\* A complete detail payload of the resource e under the given path.
DetailPayload(path, e) ==
    CASE path = <<"pokemon">> ->
            [id |-> PyInt(e), order |-> PyInt(e),
             forms |-> <<[name |-> PyStr("bulbasaur")]>>,
             stats |-> <<[base_stat |-> PyInt(45), stat |-> [name |-> PyStr("hp")]]>>,
             types |-> <<[slot |-> PyInt(1), type |-> [name |-> PyStr("grass")]]>>,
             moves |-> <<[move |-> [name |-> PyStr("razor-wind")]]>>,
             height |-> PyInt(7), weight |-> PyInt(69),
             species |-> [name |-> PyStr("bulbasaur")],
             game_indices |-> <<[game_index |-> PyInt(153),
                                 version |-> [name |-> PyStr("red")]]>>]
      [] path = <<"pokemon", "-species">> ->
            [id |-> PyInt(e), order |-> PyInt(e), name |-> PyStr("bulbasaur")]
      [] path = <<"type">> ->
            [id |-> PyInt(e), name |-> PyStr("grass"),
             damage_relations |->
                 [double_damage_from |-> <<[name |-> PyStr("fire")]>>,
                  double_damage_to |-> <<[name |-> PyStr("water")]>>,
                  half_damage_from |-> <<[name |-> PyStr("ground")]>>,
                  half_damage_to |-> <<[name |-> PyStr("steel")]>>,
                  no_damage_from |-> EmptyList,
                  no_damage_to |-> EmptyList]]
      [] path = <<"move">> ->
            [id |-> PyInt(e), name |-> PyStr("pound"), power |-> PyInt(40),
             pp |-> PyInt(35), type |-> [name |-> PyStr("normal")],
             damage_class |-> [name |-> PyStr("physical")]]
      [] path = <<"ability">> ->
            [id |-> PyInt(e), name |-> PyStr("stench"),
             pokemon |-> <<[is_hidden |-> PyStr("false"),
                            pokemon |-> [name |-> PyStr("gloom")]]>>]
      [] path = <<"item">> ->
            [id |-> PyInt(e), name |-> PyStr("master-ball"),
             category |-> [name |-> PyStr("standard-balls")]]
      [] OTHER -> None

\* The payload of catalog page p under the given path:
\* {count, next, results: [{name, url}, ...]}
PagePayload(src, path, p) ==
    LET page == src.pages[p]
    IN  [count |-> PyInt(page.count),
         next |-> IF page.next = 0 THEN None ELSE Url(path, "page", page.next),
         results |-> [i \in 1..Len(page.entries) |->
                        [name |-> PyStr("entry"),
                         url |-> Url(path, "resource", page.entries[i])]]]

\* What a GET of u may be answered with: the body, or None when it fails.
Responses(src, u) ==
    IF u.kind = "page"
    THEN {None} \cup
         IF u.id \in DOMAIN src.pages
                /\ \E cls \in DataClasses : EndpointPath(cls) = u.path
         THEN {PagePayload(src, u.path, u.id)}
         ELSE {}
    ELSE IF u.id \in src.absent THEN {None} ELSE {DetailPayload(u.path, u.id)}

\* api_call(url): the values the call may return, the JSON body or None
\* (requests raised, which api_call catches)
api_call(u) == Responses(source, u)

(***************************************************************************)
(* The catalogs of the model: at most MaxPages pages and MaxEntries        *)
(* entries.  Page p's next is page p + 1; the last page's next is null or  *)
(* any page (a catalog whose links loop).  The last page declares the      *)
(* total of the catalog and each page before it one more than the page     *)
(* after it (entries were withdrawn while the catalog was read), so that   *)
(* the pages' counts tell the pages apart.                                 *)
(***************************************************************************)
RECURSIVE SumTo(_, _)
SumTo(f, k) == IF k = 0 THEN 0 ELSE f[k] + SumTo(f, k - 1)

PageSizes(P) == {f \in [1..P -> 0..MaxEntries] : SumTo(f, P) <= MaxEntries}

Catalog(P, f, last) ==
    [p \in 1..P |->
        [entries |-> [i \in 1..f[p] |-> SumTo(f, p - 1) + i],
         next |-> IF p < P THEN p + 1 ELSE last,
         count |-> SumTo(f, P) + (P - p)]]

Catalogs ==
    UNION {UNION {{Catalog(P, f, last) : last \in 0..P} : f \in PageSizes(P)}
           : P \in 1..MaxPages}

\* The entry ids of a catalog.
EntryIds(pages) ==
    UNION {{pages[p].entries[i] : i \in 1..Len(pages[p].entries)}
           : p \in DOMAIN pages}

Sources ==
    UNION {{[pages |-> pages, absent |-> absent]
            : absent \in SUBSET EntryIds(pages)}
           : pages \in Catalogs}

(***************************************************************************)
(* extract_data.                                                           *)
(***************************************************************************)
NotCalled == [not_called |-> TRUE]

Init ==
    /\ data_class \in DataClasses
    /\ source \in Sources
    /\ pc = "start"
    /\ exc = ""
    /\ url = None
    /\ data = None
    /\ data_urls = <<>>
    /\ futures = <<>>
    /\ detailed_data = <<>>
    /\ results = <<>>
    /\ count = 0
    /\ log_calls = <<>>
    /\ write_calls = <<>>
    /\ visited = <<>>
    /\ t_in = <<>>
    /\ t_out = NotCalled

\* url = self.endpoints[data_class]; results = []; count = 0
Start ==
    /\ pc = "start"
    /\ url' = endpoints(data_class)
    /\ results' = <<>>
    /\ count' = 0
    /\ pc' = "fetch_page"
    /\ UNCHANGED <<data_class, source, exc, data, data_urls, futures,
                   detailed_data, log_calls, write_calls, visited, t_in, t_out>>

\* data_urls: the entries' urls, "-species" removed for the pokemon class
EntryUrls(page, cls) ==
    [i \in 1..Len(page.results) |->
        IF cls = "pokemon" THEN re_sub_species(page.results[i].url)
        ELSE page.results[i].url]

\* A failed page fetch that leaves the loop instead of the function.
AfterFailedPageFetchBreak == "report"

\* if data is None: logging.error(...); return
AfterFailedPageFetch == "aborted"

\* while url is not None: data = self.api_call(url); if data is None: return;
\* data_urls = [...].  The model stops the loop at MaxFetches page fetches.
FetchPage ==
    /\ pc = "fetch_page"
    /\ Len(visited) < MaxFetches
    /\ \E fetched \in api_call(url) :
           IF fetched = None
           THEN /\ pc' = AfterFailedPageFetch
                /\ data' = fetched
                /\ UNCHANGED <<data_urls, visited>>
           ELSE /\ pc' = "submit"
                /\ data' = fetched
                /\ data_urls' = EntryUrls(fetched, data_class)
                /\ visited' = Append(visited, url.id)
    /\ UNCHANGED <<data_class, source, exc, url, futures, detailed_data,
                   results, count, log_calls, write_calls, t_in, t_out>>

\* fetch_detailed_data: executor.map(self.api_call, urls) creates one future
\* per url, in order, before any result is asked for
Submit ==
    /\ pc = "submit"
    /\ futures' = [i \in 1..Len(data_urls) |-> [state |-> "pending", result |-> None]]
    /\ detailed_data' = <<>>
    /\ pc' = "gather"
    /\ UNCHANGED <<data_class, source, exc, url, data, data_urls, results,
                   count, log_calls, write_calls, visited, t_in, t_out>>

\* The futures a worker thread is running: the fetches in flight.
InFlight == {i \in DOMAIN futures : futures[i].state = "running"}

Pending == {i \in DOMAIN futures : futures[i].state = "pending"}

\* A pool that starts a thread for every work item.
HasFreeWorkerAlways(running) == TRUE

\* Whether the pool may run one more work item: ThreadPoolExecutor(max_workers=...)
HasFreeWorker(running) == Cardinality(running) < MaxWorkers

\* A worker takes the oldest work item of the pool's queue.
WorkerStart ==
    /\ Pending # {}
    /\ HasFreeWorker(InFlight)
    /\ LET i == CHOOSE i \in Pending : \A j \in Pending : i <= j
       IN  futures' = [futures EXCEPT ![i].state = "running"]
    /\ UNCHANGED <<data_class, source, pc, exc, url, data, data_urls,
                   detailed_data, results, count, log_calls, write_calls,
                   visited, t_in, t_out>>

\* A worker's api_call returns and sets its future's result.
WorkerFinish(i) ==
    /\ futures[i].state = "running"
    /\ \E result \in api_call(data_urls[i]) :
          futures' = [futures EXCEPT ![i] = [state |-> "done", result |-> result]]
    /\ UNCHANGED <<data_class, source, pc, exc, url, data, data_urls,
                   detailed_data, results, count, log_calls, write_calls,
                   visited, t_in, t_out>>

\* The results taken in the order the fetches complete (as_completed).
ResultNextAsCompleted ==
    /\ pc = "gather"
    /\ Len(detailed_data) < Len(futures)
    /\ \E i \in DOMAIN futures :
           /\ futures[i].state = "done"
           /\ detailed_data' = Append(detailed_data, futures[i].result)
           /\ futures' = [futures EXCEPT ![i].state = "yielded"]
    /\ UNCHANGED <<data_class, source, pc, exc, url, data, data_urls,
                   results, count, log_calls, write_calls, visited, t_in, t_out>>

\* list(executor.map(...)): the result iterator yields the futures' results
\* in the order of the urls, waiting for each
ResultNext ==
    /\ pc = "gather"
    /\ Len(detailed_data) < Len(futures)
    /\ LET i == Len(detailed_data) + 1
       IN  /\ futures[i].state = "done"
           /\ detailed_data' = Append(detailed_data, futures[i].result)
    /\ UNCHANGED <<data_class, source, pc, exc, url, data, data_urls, futures,
                   results, count, log_calls, write_calls, visited, t_in, t_out>>

\* results = transformed_data: the page replaces the accumulator.
ExtendedByAssignment(acc, transformed) == transformed

\* The page's records put in front of the accumulator.
ExtendedInFront(acc, transformed) == transformed \o acc

\* results.extend(transformed_data)
Extended(acc, transformed) == acc \o transformed

\* The url left as it is: the loop fetches the same page again.
NextUrlNotAdvanced(current, page) == current

\* url = data["next"]
NextUrl(current, page) == page.next

\* if url is not None: the loop body runs once.
LoopTestOnce(u) == "report"

\* while url is not None: the loop body again, or the code after the loop
LoopTest(u) == IF u = None THEN "report" ELSE "fetch_page"

\* fetch_detailed_data returns; transformed_data = self.transform_data(...);
\* results.extend(transformed_data); count += len(transformed_data);
\* url = data["next"]
ProcessPage ==
    /\ pc = "gather"
    /\ Len(detailed_data) = Len(futures)
    /\ \E transformed \in {transform_data(detailed_data, data_class)} :
           IF IsRaise(transformed)
           THEN /\ pc' = "raised"
                /\ exc' = transformed.raised
                /\ UNCHANGED <<results, count, url>>
           ELSE /\ results' = Extended(results, transformed.value)
                /\ count' = count + Len(transformed.value)
                /\ url' = NextUrl(url, data)
                /\ pc' = LoopTest(NextUrl(url, data))
                /\ exc' = exc
    /\ UNCHANGED <<data_class, source, data, data_urls, futures,
                   detailed_data, log_calls, write_calls, visited, t_in, t_out>>

\* The extracted count reported as the expected count too.
ReportArgsActualTwice(extracted, page) == <<extracted, extracted>>

\* api_count = data["count"]; the count and api_count log_metadata is given
ReportArgs(extracted, page) == <<extracted, page.count.n>>

\* end_time = time.time(); api_count = data["count"];
\* self.log_metadata(start_time, end_time, data_class, count, api_count)
Report ==
    /\ pc = "report"
    /\ IF data = None
       THEN pc' = "raised" /\ exc' = "TypeError" /\ UNCHANGED log_calls
       ELSE /\ log_calls' = Append(log_calls, ReportArgs(count, data))
            /\ pc' = "write"
            /\ exc' = exc
    /\ UNCHANGED <<data_class, source, url, data, data_urls, futures,
                   detailed_data, results, count, write_calls, visited,
                   t_in, t_out>>

\* self.write_data_to_file(results, data_class): open() raises
\* FileNotFoundError when the data directory does not exist
Write ==
    /\ pc = "write"
    /\ write_calls' = Append(write_calls, results)
    /\ \E directory_exists \in BOOLEAN :
          IF directory_exists
          THEN pc' = "done" /\ exc' = exc
          ELSE pc' = "raised" /\ exc' = "FileNotFoundError"
    /\ UNCHANGED <<data_class, source, url, data, data_urls, futures,
                   detailed_data, results, count, log_calls, visited,
                   t_in, t_out>>

Next ==
    \/ Start
    \/ FetchPage
    \/ Submit
    \/ WorkerStart
    \/ \E i \in DOMAIN futures : WorkerFinish(i)
    \/ ResultNext
    \/ ProcessPage
    \/ Report
    \/ Write

Spec == Init /\ [][Next]_vars

\* The driver thread and the pool's worker threads keep being scheduled, and
\* every GET returns: a step that can be taken is taken.
FairSpec == Spec /\ WF_vars(Next)

(***************************************************************************)
(* transform_data on its own: one call on a list holding one present       *)
(* payload.  The payloads are the complete payload of the class with any   *)
(* subset of its keys left out, and the complete or the empty payload with *)
(* one key set to a list or dict that is empty or whose entries lack their *)
(* nested keys.                                                            *)
(***************************************************************************)
\* The path the detail payloads of a class are fetched under.
ResourcePath(cls) == re_sub_species(endpoints(cls)).path

FullPayload(cls) == DetailPayload(ResourcePath(cls), 1)

\* The lists and dicts a key may hold with nested keys missing.
Degenerate(cls, key) ==
    CASE key \in {"forms", "stats", "types", "moves", "game_indices", "pokemon"} ->
            {EmptyList, <<EmptyDict>>,
             <<[stat |-> EmptyDict, type |-> EmptyDict, move |-> EmptyDict,
                version |-> EmptyDict, pokemon |-> EmptyDict]>>}
      [] key \in {"species", "type", "damage_class", "category"} ->
            {EmptyDict}
      [] key = "damage_relations" ->
            {EmptyDict,
             [double_damage_from |-> EmptyList, no_damage_to |-> <<EmptyDict>>]}
      [] OTHER -> {}

Restrict(d, keys) == [k \in keys |-> d[k]]

\* d with d[key] = value, key new or not
With(d, key, value) ==
    [k \in DOMAIN d \cup {key} |-> IF k = key THEN value ELSE d[k]]

Payloads(cls) ==
    LET full == FullPayload(cls)
    IN  {Restrict(full, keys) : keys \in SUBSET DOMAIN full}
        \cup UNION {{With(full, key, v) : v \in Degenerate(cls, key)}
                    : key \in DOMAIN full}
        \cup UNION {{With(EmptyDict, key, v) : v \in Degenerate(cls, key)}
                    : key \in DOMAIN full}

InitTransform ==
    /\ data_class \in DataClasses
    /\ t_in \in {<<payload>> : payload \in Payloads(data_class)}
    /\ t_out = NotCalled
    /\ source = [pages |-> <<>>, absent |-> {}]
    /\ pc = "idle"
    /\ exc = ""
    /\ url = None
    /\ data = None
    /\ data_urls = <<>>
    /\ futures = <<>>
    /\ detailed_data = <<>>
    /\ results = <<>>
    /\ count = 0
    /\ log_calls = <<>>
    /\ write_calls = <<>>
    /\ visited = <<>>

\* One call transform_data(t_in, data_class).
Transform ==
    /\ t_out = NotCalled
    /\ pc = "idle"
    /\ t_out' = transform_data(t_in, data_class)
    /\ UNCHANGED <<data_class, t_in>>
    /\ UNCHANGED run_vars

NextTransform == Transform

SpecTransform == InitTransform /\ [][NextTransform]_vars

(***************************************************************************)
(* What the run should have accumulated, from the source alone.            *)
(***************************************************************************)
Terminated == pc \in {"done", "aborted", "raised"}

\* The record of entry e: its complete payload, reshaped.
ExpectedRecord(cls, e) ==
    transform_data(<<DetailPayload(ResourcePath(cls), e)>>, cls).value[1]

\* The records of the entries of page p whose detail GET succeeds, in the
\* order of the page's entry stubs.
SurvivingRecords(src, cls, p) ==
    LET alive == SelectSeq(src.pages[p].entries, LAMBDA e : e \notin src.absent)
    IN  [i \in 1..Len(alive) |-> ExpectedRecord(cls, alive[i])]

RECURSIVE ExpectedResults(_, _, _)
ExpectedResults(src, cls, ps) ==
    IF ps = <<>> THEN <<>>
    ELSE ExpectedResults(src, cls, SubSeq(ps, 1, Len(ps) - 1))
            \o SurvivingRecords(src, cls, ps[Len(ps)])

\* The pages fetched so far whose records are in the accumulator: all of
\* them but the one whose details are being fetched or whose transform raised.
ProcessedPages ==
    IF pc \in {"submit", "gather"}
            \/ (pc = "raised" /\ exc \notin {"FileNotFoundError", "TypeError"})
    THEN SubSeq(visited, 1, Len(visited) - 1)
    ELSE visited

\* The entries of the pages ps whose detail GET succeeds.
Survivors(src, ps) ==
    {e \in EntryIds(src.pages) :
        /\ e \notin src.absent
        /\ \E i \in 1..Len(ps), j \in 1..MaxEntries :
              j <= Len(src.pages[ps[i]].entries) /\ src.pages[ps[i]].entries[j] = e}

\* Following next from the endpoint's page ends at a null next.
RECURSIVE ChainEnds(_, _, _)
ChainEnds(src, p, fuel) ==
    IF p = 0 THEN TRUE
    ELSE IF fuel = 0 THEN FALSE
    ELSE ChainEnds(src, src.pages[p].next, fuel - 1)

FiniteChain == ChainEnds(source, 1, Len(source.pages))

\* No page is fetched twice.
EachPageFetchedOnce ==
    \A i, j \in 1..Len(visited) : i # j => visited[i] # visited[j]

(***************************************************************************)
(* The claims.                                                             *)
(***************************************************************************)

\* C1: when the fetch of a page fails, of the first page or of a later one,
\* the run is in "aborted" and stays there: write_data_to_file and
\* log_metadata have not been called and no step follows.
C1_FailedPageFetchAborts ==
    /\ (pc \notin {"start", "fetch_page"} /\ data = None) => pc = "aborted"
    /\ pc = "aborted" =>
          /\ data = None
          /\ write_calls = <<>>
          /\ log_calls = <<>>
          /\ ~ENABLED Next

\* C1's case: a later page's fetch failed after records were accumulated.
C1_Witness ==
    /\ pc = "aborted"
    /\ visited # <<>>
    /\ results # <<>>

\* C2: whichever detail fetches fail, they never end
\* the run with an exception, whatever the record class, and the
\* accumulator holds the records of exactly the entries that were fetched.
C2_DetailFailuresAreDropped ==
    /\ ~(pc = "raised" /\ exc = "AttributeError")
    /\ results = ExpectedResults(source, data_class, ProcessedPages)

\* C3: what fetch_detailed_data has collected holds, at index i, the result
\* of api_call on url i (the payload or None), and once it has returned
\* the list is as long as the list of urls.
C3_ResultsInUrlOrder ==
    /\ pc # "submit" =>
          /\ Len(detailed_data) <= Len(data_urls)
          /\ \A i \in 1..Len(detailed_data) :
                detailed_data[i] \in api_call(data_urls[i])
    /\ pc \notin {"submit", "gather"} => Len(detailed_data) = Len(data_urls)

\* C3's case: the call returned for more urls than there are workers, a
\* failed fetch in front of a successful one.
C3_Witness ==
    /\ pc \notin {"start", "submit", "gather"}
    /\ Len(detailed_data) > MaxWorkers
    /\ detailed_data[1] = None
    /\ detailed_data[2] # None

\* C4: write_data_to_file is called only after the page whose next is null
\* has been processed, once, with the accumulator of all the pages; a run
\* that is done has called it.
C4_SingleWriteAtEnd ==
    /\ write_calls # <<>> =>
          /\ pc \in {"done", "raised"}
          /\ Len(write_calls) = 1
          /\ write_calls[1] = results
          /\ url = None
          /\ data.next = None
          /\ results = ExpectedResults(source, data_class, visited)
    /\ pc = "done" => Len(write_calls) = 1

\* C4's case: a run over two pages is done and has written.
C4_Witness ==
    /\ pc = "done"
    /\ Len(visited) = 2
    /\ Len(write_calls[1]) >= 2

\* C5: when the run is done, the accumulator is as long as there are
\* entries on the visited pages whose detail fetch succeeded, and that is
\* the count the last page declared (the catalog's total) when no detail
\* fetch failed.
C5_FinalLength ==
    pc = "done" =>
        /\ Len(results) = Cardinality(Survivors(source, visited))
        /\ count = Len(results)
        /\ source.absent = {} =>
              /\ Len(results) = source.pages[visited[Len(visited)]].count
              /\ Len(results) = log_calls[1][2]

\* C5's case: two pages, no failed detail fetch, the declared total reached.
C5_Witness ==
    /\ pc = "done"
    /\ Len(visited) = 2
    /\ source.absent = {}
    /\ Len(results) = MaxEntries
    /\ log_calls = << <<MaxEntries, MaxEntries>> >>

\* C6: at every point of a run the accumulator is the concatenation, in the
\* order the pages were visited, of each processed page's surviving records
\* in the order of its entry stubs: a function of the source alone.
C6_CatalogVisitOrder ==
    results = ExpectedResults(source, data_class, ProcessedPages)

\* C6's case: two pages visited, a record dropped on the first, a record
\* of each page in the accumulator.
C6_Witness ==
    /\ pc = "done"
    /\ visited = <<1, 2>>
    /\ source.absent = {2}
    /\ Len(results) = 2
    /\ results[1].id = PyInt(1)
    /\ results[2].id = PyInt(3)

\* C7: transform_data does not raise on a present payload, whichever
\* optional fields are absent, empty or lack their nested keys.
C7_TransformNeverRaises ==
    t_out # NotCalled => ~IsRaise(t_out)

\* C8: at most MaxWorkers detail fetches are in flight; a fetch is queued
\* or in flight only while the driver gathers the results of the current
\* page, whose entries' urls the futures are for.
C8_BoundedInFlight ==
    /\ Cardinality(InFlight) <= MaxWorkers
    /\ (InFlight \cup Pending) # {} =>
          /\ pc = "gather"
          /\ DOMAIN futures = DOMAIN data_urls
          /\ data_urls = EntryUrls(data, data_class)

\* C8's case: the budget is used up and a fetch waits in the queue.
C8_Witness ==
    /\ Cardinality(InFlight) = MaxWorkers
    /\ Pending # {}

\* C9: log_metadata is called at most once, and in a run that is done it
\* was called with the length of the list then written and the count the
\* last page fetched declared; the list written is the whole accumulator.
C9_ReportedOnce ==
    /\ Len(log_calls) <= 1
    /\ pc = "done" =>
          /\ Len(log_calls) = 1
          /\ Len(write_calls) = 1
          /\ log_calls[1][1] = Len(write_calls[1])
          /\ log_calls[1][2] = source.pages[visited[Len(visited)]].count
          /\ write_calls[1] = ExpectedResults(source, data_class, visited)

\* C9's case: a run over two pages that declare different counts is done,
\* the counts reported differ, and a list was written.
C9_Witness ==
    /\ pc = "done"
    /\ Len(visited) = 2
    /\ source.pages[1].count # source.pages[2].count
    /\ log_calls[1][1] # log_calls[1][2]
    /\ write_calls[1] # <<>>

====
